---- MODULE Spec2Model ----
(***************************************************************************)
(* Model of src/index.js: the rate-limited enforcement scheduler of the    *)
(* group-lock bot.  Every synchronous section of the JavaScript code (the  *)
(* code between two awaits) is one atomic action; the continuations of     *)
(* awaits, timers and library callbacks interleave freely, except that a   *)
(* timer callback never runs while a promise continuation is pending.      *)
(***************************************************************************)
EXTENDS Integers, Sequences, FiniteSets, TLC

\* ---------------------------------------------------------------- bounds
NumThreads == 3          \* conversations
MaxTasks == 2            \* queueTask calls per conversation in the queue model
NumSlots == 2            \* runQueue invocations that can be alive per conversation
NumTicks == 2            \* poll-tick callbacks that can be alive at once
MaxTime == 120           \* the clock stops here (seconds)
NumWatched == 1          \* conversations the operator issues title commands in
NumEnforced == 2         \* conversations swept for nicknames
NumMembers == 1          \* members of a conversation besides the operator
MaxQueue == 3            \* tasks waiting in one queue
MaxCount == 3            \* policy.count stops growing here
MaxChanges == 1          \* nickname changes made by other users
MaxLogins == 1           \* re-logins and restarts
MaxSaves == 3            \* saveLocks calls in the file-system model
MaxDelayCount == 40      \* getDynamicDelay is called with counts up to this
MaxEvents == 2
MaxAttempts == 13
MaxSessions == 2          \* registrations of one kind that are counted           \* nickname changes when every one is notified
RandomSteps == 4         \* Math.random() returns k / RandomSteps, 0 <= k < RandomSteps

\* ------------------------------------------------------ program constants
GLOBAL_MAX_CONCURRENT == 1
GROUP_NAME_CHECK_INTERVAL == 60     \* seconds
GROUP_NAME_REVERT_DELAY == 47       \* seconds
MAX_PER_TICK == 2                   \* process.env.MAX_PER_TICK (the default is 5)
NICKNAME_CHANGE_LIMIT == 2          \* process.env.NICKNAME_CHANGE_LIMIT (the default is 50)
BOSS_UID == 0
DEFAULT_NICKNAME == "N"
FAST_NICKNAME_DELAY_MIN == 5000     \* milliseconds
FAST_NICKNAME_DELAY_MAX == 7000
SLOW_NICKNAME_DELAY_MIN == 12000
SLOW_NICKNAME_DELAY_MAX == 13000

Threads == 1..NumThreads
Slots == 1..NumSlots
Watched == 1..NumWatched
Enforced == 1..NumEnforced
Followed == {1}          \* the conversation followed through commands, events and cooldown
Members == 1..NumMembers
Users == {BOSS_UID} \cup Members
Nicks == {DEFAULT_NICKNAME, "Z"}
NoTask == [kind |-> "none"]

VARIABLES
    globalActiveCount,   \* let globalActiveCount
    globalPending,       \* const globalPending: resolvers, one per suspended runQueue
    groupQueues,         \* groupQueues[t] = [running, tasks]
    loops,               \* loops[t][s]: position of the s-th runQueue(t) invocation
    enqueued,            \* number of queueTask calls made for t (task identity)
    done,                \* ids of the tasks of t whose fn has settled
    gateOrder,           \* callers suspended in acquireGlobalSlot, oldest first
    groupLocks,          \* let groupLocks: the policy objects
    lockKeys,            \* Object.keys(groupLocks), in insertion order
    dataFile,            \* the text of groupData.json
    now,                 \* Date.now(), in seconds
    nextTick,            \* when the poll setInterval fires next
    ticks,               \* ticks[k]: position of a running poll callback
    groupNameChangeDetected,
    groupNameRevertInProgress,
    title,               \* the remote title of each conversation
    firstSeen,           \* when the current divergence was first observed
    cmdCalls,            \* title-set calls of /gclock <name> in flight
    nicknames,           \* the remote nickname of each user in each conversation
    cooldownTimers,      \* pending setTimeout callbacks of line 537, with the object they captured
    objGen,              \* which generation of policy objects groupLocks holds (loadLocks makes new ones)
    changesLeft,         \* nickname changes other users will still make
    logins,              \* loginAndRun passes made after the first
    tmpFile,             \* the bytes of groupData.json.tmp, or NoFile
    saves,               \* saves[i]: position of the i-th saveLocks call
    delayCount,          \* the argument given to getDynamicDelay
    delayResult,         \* what getDynamicDelay returned for it
    loginPc,             \* where loginAndRun is
    loginAttempts,       \* let loginAttempts
    backoff,             \* the backoff loginAndRun is sleeping, in seconds
    failures,            \* login attempts that failed since the last login that succeeded
    caught,              \* what the catch of line 592 caught in this pass of the loop
    timers,              \* how many interval timers of each kind, and listeners, are registered
    participants,        \* the members of each conversation besides the operator
    heard,               \* the message event the listener was given last, if any
    threw                \* ids of the tasks of t whose outbound call failed

qvars == <<globalActiveCount, globalPending, groupQueues, loops, enqueued, done, gateOrder>>
pvars == <<groupLocks, lockKeys, dataFile>>
tvars == <<now, nextTick, ticks, groupNameChangeDetected, groupNameRevertInProgress,
           title, firstSeen, cmdCalls>>
nvars == <<nicknames, cooldownTimers, objGen, changesLeft, logins>>
fvars == <<tmpFile, saves>>
dvars == <<delayCount, delayResult>>
lvars == <<loginPc, loginAttempts, backoff, failures, caught, timers>>
uvars == <<fvars, dvars, lvars, participants>>
xvars == <<uvars, threw>>
vars == <<qvars, pvars, tvars, nvars, xvars, heard>>

Max(a, b) == IF a >= b THEN a ELSE b

\* ---------------------------------------------------------- policy store
\* A policy is a JavaScript object: a function whose domain is the set of the
\* fields it has.  groupLocks[t] is meaningful only for t among lockKeys.
EmptyObj == <<>>
NoTime == -1
Unsettled == -2
Names == {"X", "Y"}

HasKey(keys, t) == \E i \in DOMAIN keys : keys[i] = t
Has(p, f) == f \in DOMAIN p
With(p, f, v) == [x \in DOMAIN p \cup {f} |-> IF x = f THEN v ELSE p[x]]
Without(p, f) == [x \in DOMAIN p \ {f} |-> p[x]]
IsOn(p, f) == Has(p, f) /\ p[f] = TRUE
Text(p, f) == IF Has(p, f) THEN p[f] ELSE ""

\* groupLocks[threadID] = groupLocks[threadID] || {}   (lines 386, 473, 489)
KeysWith(keys, t) == IF HasKey(keys, t) THEN keys ELSE Append(keys, t)

\* JSON.stringify(groupLocks, null, 2), line 126: one entry per key, in key
\* order, each with the set of the <<field, value>> pairs of the object
Pairs(p) == {<<f, p[f]>> : f \in DOMAIN p}
PolicyPairs(p) == {<<f, IF f = "original" THEN Pairs(p[f]) ELSE p[f]>> : f \in DOMAIN p}
OpenBrace == <<"{">>
CloseBrace == <<"}">>
Stringify(locks, keys) ==
    <<OpenBrace>> \o [i \in DOMAIN keys |-> <<keys[i], PolicyPairs(locks[keys[i]])>>] \o <<CloseBrace>>

\* JSON.parse(txt), line 110
Unpair(pairs) == [f \in {pr[1] : pr \in pairs} |-> (CHOOSE pr \in pairs : pr[1] = f)[2]]
UnpairPolicy(pairs) ==
    [f \in {pr[1] : pr \in pairs} |->
        LET v == (CHOOSE pr \in pairs : pr[1] = f)[2] IN IF f = "original" THEN Unpair(v) ELSE v]
\* the text is one JSON object: JSON.parse does not throw on it
WellFormed(txt) ==
    /\ Len(txt) >= 2
    /\ txt[1] = OpenBrace
    /\ txt[Len(txt)] = CloseBrace
    /\ \A i \in 2..(Len(txt) - 1) : Len(txt[i]) = 2
\* the entries of JSON.parse(txt || "{}"); the catch of line 118 leaves {}
Entries(txt) == IF WellFormed(txt) THEN SubSeq(txt, 2, Len(txt) - 1) ELSE <<>>
ParseKeys(txt) == [i \in DOMAIN Entries(txt) |-> Entries(txt)[i][1]]
ParseLocks(txt) ==
    LET es == Entries(txt) IN
    [t \in Threads |-> IF \E i \in DOMAIN es : es[i][1] = t
                       THEN UnpairPolicy((CHOOSE e \in {es[i] : i \in DOMAIN es} : e[1] = t)[2])
                       ELSE EmptyObj]

\* saveLocks, lines 123-132, on the mapping the handler leaves behind
Saved(locks, keys) == Stringify(locks, keys)

\* policy.count || 0
Count(p) == IF Has(p, "count") THEN p["count"] ELSE 0

\* group.count = (group.count || 0) + 1 (lines 261, 410, 457, 532, 567); counts
\* from MaxCount up are kept as MaxCount: the program only compares count with
\* NICKNAME_CHANGE_LIMIT, which is below MaxCount
Bump(count) == IF count < MaxCount THEN count + 1 ELSE MaxCount

\* line 534
LimitReached(count) == count >= NICKNAME_CHANGE_LIMIT

\* ------------------------------------------------------------------ gate
\* acquireGlobalSlot, line 83: the fast path is taken
SlotFree(active) == active < GLOBAL_MAX_CONCURRENT

\* releaseGlobalSlot, line 91
ReleasedNot(active) == active
Released(active) == Max(0, active - 1)

\* a caller has returned from acquireGlobalSlot and not yet released
Holding == {"call", "delay"}
Holders == {c \in Threads \X Slots : loops[c[1]][c[2]].pc \in Holding}

\* a promise continuation (the waiter woken by releaseGlobalSlot) is pending:
\* timers fire only after it has run
MicrotaskPending == \E t \in Threads, s \in Slots : loops[t][s].pc = "woken"

\* ----------------------------------------------------------------- queue
\* runQueue line 167: q.tasks.shift()
ShiftFn(tasks) == Head(tasks)
ShiftRest(tasks) == Tail(tasks)

\* queueTask line 160 / runQueue line 164: a drain loop is started
StartsLoopUnguarded(q) == TRUE
StartsLoop(q) == ~q.running

FreeSlot(t) == CHOOSE s \in Slots : loops[t][s].pc = "off" /\ \A r \in Slots : loops[t][r].pc = "off" => s <= r

\* One iteration head of runQueue (lines 166-169) by invocation <<t, s>> on the
\* task list `tasks`: shift the oldest task and run the synchronous part of
\* acquireGlobalSlot.
Iterate(t, s, tasks, running) ==
    LET fn == ShiftFn(tasks) IN
    /\ groupQueues' = [groupQueues EXCEPT ![t] = [running |-> running, tasks |-> ShiftRest(tasks)]]
    /\ IF SlotFree(globalActiveCount)
       THEN /\ globalActiveCount' = globalActiveCount + 1
            /\ loops' = [loops EXCEPT ![t][s] = [pc |-> "call", fn |-> fn]]
            /\ UNCHANGED <<globalPending, gateOrder>>
       ELSE /\ globalPending' = Append(globalPending, <<t, s>>)
            /\ gateOrder' = Append(gateOrder, <<t, s>>)
            /\ loops' = [loops EXCEPT ![t][s] = [pc |-> "waiting", fn |-> fn]]
            /\ UNCHANGED globalActiveCount

\* the queueTask calls (lines 157-161) of one synchronous section, in order:
\* the first one starts runQueue (lines 162-169) when no drain loop is running
EnqueueAll(t, new) ==
    LET q == groupQueues[t]
        tasks == q.tasks \o new
    IN IF new # <<>> /\ StartsLoop(q) /\ \E s \in Slots : loops[t][s].pc = "off"
       THEN Iterate(t, FreeSlot(t), tasks, TRUE)
       ELSE /\ groupQueues' = [groupQueues EXCEPT ![t].tasks = tasks]
            /\ UNCHANGED <<globalActiveCount, globalPending, loops, gateOrder>>

\* queueTask(threadID, fn) for an arbitrary fn
QueueTask(t) ==
    /\ enqueued[t] < MaxTasks
    /\ enqueued' = [enqueued EXCEPT ![t] = @ + 1]
    /\ EnqueueAll(t, <<[kind |-> "fn", id |-> enqueued[t] + 1]>>)
    /\ UNCHANGED <<done, pvars, tvars, nvars, xvars, heard>>

\* what a task's fn does after its changeNickname call has succeeded
\* (lines 243, 260-262, 396, 409-411, 441, 456-458, 532-543, 566-568)
TaskEffect(t, fn) ==
    LET own == HasKey(lockKeys, t) /\ fn.gen = objGen[t]   \* the captured policy object is groupLocks[t]
        p == groupLocks[t]
        n == Bump(Count(p))
    IN CASE fn.kind = "fn" ->
              UNCHANGED <<groupLocks, dataFile, nicknames, cooldownTimers>>
         [] fn.kind \in {"initBot", "lockBot", "allBot"} ->
              /\ nicknames' = [nicknames EXCEPT ![t][fn.uid] = fn.nick]
              /\ UNCHANGED <<groupLocks, dataFile, cooldownTimers>>
         [] fn.kind = "lock" ->
              /\ nicknames' = [nicknames EXCEPT ![t][fn.uid] = fn.nick]
              /\ IF HasKey(lockKeys, t)
                 THEN /\ groupLocks' = [groupLocks EXCEPT ![t] = With(p, "count", n)]
                      /\ dataFile' = Saved(groupLocks', lockKeys)
                 ELSE UNCHANGED <<groupLocks, dataFile>>
              /\ UNCHANGED cooldownTimers
         [] fn.kind \in {"init", "nickall", "sync"} ->
              /\ nicknames' = [nicknames EXCEPT ![t][fn.uid] = fn.nick]
              /\ groupLocks' = IF own THEN [groupLocks EXCEPT ![t] = With(p, "count", n)] ELSE groupLocks
              /\ dataFile' = Saved(groupLocks', lockKeys)
              /\ UNCHANGED cooldownTimers
         [] fn.kind = "revert" ->
              /\ nicknames' = [nicknames EXCEPT ![t][fn.uid] = fn.nick]
              /\ groupLocks' = IF own
                               THEN [groupLocks EXCEPT ![t] =
                                        IF LimitReached(n)
                                        THEN With(With(p, "count", n), "cooldown", TRUE)
                                        ELSE With(p, "count", n)]
                               ELSE groupLocks
              /\ cooldownTimers' = IF own /\ LimitReached(n)
                                   THEN cooldownTimers \cup {[t |-> t, gen |-> fn.gen]}
                                   ELSE cooldownTimers
              /\ dataFile' = Saved(groupLocks', lockKeys)

\* releaseGlobalSlot (lines 90-96) called by <<t, s>> from the finally of
\* runQueue (line 173); the loop then sleeps 500 ms (line 178).
Release(t, s) ==
    /\ globalActiveCount' = Released(globalActiveCount)
    /\ done' = [done EXCEPT ![t] = IF loops[t][s].fn.kind = "fn" THEN @ \cup {loops[t][s].fn.id} ELSE @]
    /\ IF globalPending # <<>>
       THEN LET w == Head(globalPending) IN
            /\ globalPending' = Tail(globalPending)
            /\ loops' = [loops EXCEPT ![t][s] = [pc |-> "pace", fn |-> NoTask],
                                      ![w[1]][w[2]].pc = "woken"]
       ELSE /\ loops' = [loops EXCEPT ![t][s] = [pc |-> "pace", fn |-> NoTask]]
            /\ UNCHANGED globalPending
    /\ UNCHANGED <<groupQueues, enqueued, gateOrder>>

\* the continuation of line 87: the woken waiter counts itself in (line 88)
\* and returns; runQueue calls fn (line 171)
Resume(t, s) ==
    /\ loops[t][s].pc = "woken"
    /\ globalActiveCount' = globalActiveCount + 1
    /\ loops' = [loops EXCEPT ![t][s].pc = "call"]
    /\ gateOrder' = SelectSeq(gateOrder, LAMBDA c : c # <<t, s>>)
    /\ UNCHANGED <<globalPending, groupQueues, enqueued, done, pvars, tvars, nvars, xvars, heard>>

\* fn's outbound call succeeds: fn does its bookkeeping and goes on to its
\* sleep(getDynamicDelay(..)), still holding the slot
CallOk(t, s) ==
    /\ loops[t][s].pc = "call"
    /\ loops' = [loops EXCEPT ![t][s].pc = "delay"]
    /\ TaskEffect(t, loops[t][s].fn)
    /\ UNCHANGED <<globalActiveCount, globalPending, groupQueues, enqueued, done, gateOrder>>
    /\ UNCHANGED <<lockKeys, tvars, objGen, changesLeft, logins, xvars, heard>>

\* fn's outbound call fails: fn returns from its own catch, or throws into
\* runQueue's catch (line 175); the finally releases the slot
CallFail(t, s) ==
    /\ loops[t][s].pc = "call"
    /\ Release(t, s)
    /\ threw' = [threw EXCEPT ![t] = IF loops[t][s].fn.kind = "fn" THEN @ \cup {loops[t][s].fn.id} ELSE @]
    /\ UNCHANGED <<pvars, tvars, nvars, uvars, heard>>

\* the sleep inside fn ends (a timer), fn resolves, the finally releases
DelayDone(t, s) ==
    /\ loops[t][s].pc = "delay"
    /\ ~MicrotaskPending
    /\ Release(t, s)
    /\ UNCHANGED <<pvars, tvars, nvars, xvars, heard>>

\* sleep(500) ends (a timer): next iteration of the while of line 166, or
\* q.running = false (line 180)
PaceDone(t, s) ==
    /\ loops[t][s].pc = "pace"
    /\ ~MicrotaskPending
    /\ IF groupQueues[t].tasks # <<>>
       THEN Iterate(t, s, groupQueues[t].tasks, groupQueues[t].running)
       ELSE /\ groupQueues' = [groupQueues EXCEPT ![t].running = FALSE]
            /\ loops' = [loops EXCEPT ![t][s] = [pc |-> "off", fn |-> NoTask]]
            /\ UNCHANGED <<globalActiveCount, globalPending, gateOrder>>
    /\ UNCHANGED <<enqueued, done, pvars, tvars, nvars, xvars, heard>>

\* ------------------------------------------------------- title watchdog
TickSlots == 1..NumTicks
TickOff == [pc |-> "off", keys |-> <<>>, i |-> 0, name |-> ""]
Min(a, b) == IF a <= b THEN a ELSE b

\* timers: a setInterval/setTimeout callback runs only when no promise
\* continuation is pending
Elapse == {20, 40}

\* lines 300-304: the poll loop looks at keys[i] only when its policy has
\* gclock and no revert is in progress; 0 when the loop is over
Eligible(t) == HasKey(lockKeys, t) /\ IsOn(groupLocks[t], "gclock") /\ ~groupNameRevertInProgress[t]
NextEligible(keys, from) ==
    LET last == Min(MAX_PER_TICK, Len(keys))
        cand == {j \in from..last : Eligible(keys[j])}
    IN IF cand = {} THEN 0 ELSE CHOOSE j \in cand : \A m \in cand : j <= m

\* the poll callback goes on with the entry after keys[i]
Scan(k, keys, from) ==
    LET j == NextEligible(keys, from) IN
    IF j = 0 THEN TickOff ELSE [pc |-> "fetch", keys |-> keys, i |-> j, name |-> ""]

\* line 313
RevertDue(elapsed) == elapsed >= GROUP_NAME_REVERT_DELAY

\* the watchdog holds state about t: a timestamp, or a tick working on t
WatchdogBusy(t) ==
    \/ groupNameChangeDetected[t] # NoTime
    \/ \E k \in TickSlots : ticks[k].pc # "off" /\ ticks[k].keys[ticks[k].i] = t

\* bookkeeping of firstSeen: obs = conversations this step observed with a
\* title that differs from the enforced one; clear = conversations this step
\* observed with the enforced title or issued a revert for; edit =
\* conversations whose lock this step changed (while the watchdog holds state
\* of the former lock the divergence has no defined first detection)
Observe(obs, clear, edit) ==
    firstSeen' = [t \in Threads |->
        IF t \in clear THEN NoTime
        ELSE IF t \in edit THEN (IF WatchdogBusy(t) THEN Unsettled ELSE NoTime)
        ELSE IF t \in obs /\ firstSeen[t] = NoTime THEN now
        ELSE firstSeen[t]]

Advance(dt) ==
    /\ now + dt <= Min(nextTick, MaxTime)
    /\ now' = now + dt
    /\ UNCHANGED <<nextTick, ticks, groupNameChangeDetected, groupNameRevertInProgress,
                   title, firstSeen, cmdCalls, qvars, pvars, nvars, xvars, heard>>

\* the setInterval callback of line 298 starts: lines 299-306 up to the await
TickStart(k) ==
    /\ now = nextTick
    /\ ~MicrotaskPending
    /\ ticks[k].pc = "off"
    /\ \A j \in TickSlots : ticks[j].pc = "off" => k <= j
    /\ nextTick' = nextTick + GROUP_NAME_CHECK_INTERVAL
    /\ ticks' = [ticks EXCEPT ![k] = Scan(k, lockKeys, 1)]
    /\ UNCHANGED <<now, groupNameChangeDetected, groupNameRevertInProgress, title,
                   firstSeen, cmdCalls, qvars, pvars, nvars, xvars, heard>>

\* safeGetThreadInfo settles (line 306) and lines 307-328 run up to the next
\* await: ok = FALSE is the null of lines 187-198
FetchDone(k, ok) ==
    /\ ticks[k].pc = "fetch"
    /\ LET t == ticks[k].keys[ticks[k].i]
           group == groupLocks[t]
           det == groupNameChangeDetected[t]
       IN IF ok /\ title[t] # Text(group, "groupName")
          THEN IF det = NoTime
               THEN /\ groupNameChangeDetected' = [groupNameChangeDetected EXCEPT ![t] = now]
                    /\ ticks' = [ticks EXCEPT ![k] = Scan(k, ticks[k].keys, ticks[k].i + 1)]
                    /\ UNCHANGED groupNameRevertInProgress
                    /\ UNCHANGED <<now, nextTick, title, cmdCalls, qvars, pvars, nvars, xvars, heard>>
                    /\ Observe({t}, {}, {})
               ELSE IF RevertDue(now - det)
                    THEN /\ groupNameRevertInProgress' = [groupNameRevertInProgress EXCEPT ![t] = TRUE]
                         /\ ticks' = [ticks EXCEPT ![k].pc = "revert", ![k].name = Text(group, "groupName")]
                         /\ UNCHANGED groupNameChangeDetected
                         /\ UNCHANGED <<now, nextTick, title, cmdCalls, qvars, pvars, nvars, xvars, heard>>
                         /\ Observe({t}, {t}, {})
                    ELSE /\ ticks' = [ticks EXCEPT ![k] = Scan(k, ticks[k].keys, ticks[k].i + 1)]
                         /\ UNCHANGED <<groupNameChangeDetected, groupNameRevertInProgress>>
                         /\ UNCHANGED <<now, nextTick, title, cmdCalls, qvars, pvars, nvars, xvars, heard>>
                         /\ Observe({t}, {}, {})
          ELSE /\ groupNameChangeDetected' = [groupNameChangeDetected EXCEPT ![t] = NoTime]
               /\ ticks' = [ticks EXCEPT ![k] = Scan(k, ticks[k].keys, ticks[k].i + 1)]
               /\ UNCHANGED groupNameRevertInProgress
               /\ UNCHANGED <<now, nextTick, title, cmdCalls, qvars, pvars, nvars, xvars, heard>>
               /\ Observe({}, IF ok THEN {t} ELSE {}, {})

\* changeThreadTitle of line 316 settles; the finally of lines 320-323
RevertDone(k, ok) ==
    /\ ticks[k].pc = "revert"
    /\ LET t == ticks[k].keys[ticks[k].i] IN
       /\ title' = IF ok THEN [title EXCEPT ![t] = ticks[k].name] ELSE title
       /\ groupNameChangeDetected' = [groupNameChangeDetected EXCEPT ![t] = NoTime]
       /\ groupNameRevertInProgress' = [groupNameRevertInProgress EXCEPT ![t] = FALSE]
       /\ ticks' = [ticks EXCEPT ![k] =
             LET j == NextEligible(ticks[k].keys, ticks[k].i + 1) IN
             IF j = 0 THEN TickOff ELSE [pc |-> "fetch", keys |-> ticks[k].keys, i |-> j, name |-> ""]]
    /\ UNCHANGED <<now, nextTick, cmdCalls, qvars, pvars, nvars, xvars, heard>>
    /\ Observe({}, {}, {})

\* somebody renames the conversation; notify: the log:thread-name event
\* reaches the listener (lines 509-517)
Rename(t, n, notify) ==
    /\ title[t] # n
    /\ title' = [title EXCEPT ![t] = n]
    /\ LET lockedName == IF HasKey(lockKeys, t) THEN Text(groupLocks[t], "groupName") ELSE ""
           mismatch == lockedName # "" /\ n # lockedName
       IN /\ groupNameChangeDetected' =
                 IF notify /\ mismatch /\ groupNameChangeDetected[t] = NoTime
                 THEN [groupNameChangeDetected EXCEPT ![t] = now]
                 ELSE groupNameChangeDetected
          /\ UNCHANGED <<now, nextTick, ticks, groupNameRevertInProgress, cmdCalls, qvars, pvars, nvars, xvars, heard>>
          /\ Observe(IF notify /\ mismatch THEN {t} ELSE {},
                     IF notify /\ lockedName # "" /\ n = lockedName THEN {t} ELSE {}, {})

\* "/gclock <name>" from the operator, lines 470-477 up to the await
GclockName(t, n) ==
    /\ [t |-> t, name |-> n] \notin cmdCalls
    /\ groupLocks' = [groupLocks EXCEPT ![t] = With(With(@, "groupName", n), "gclock", TRUE)]
    /\ lockKeys' = KeysWith(lockKeys, t)
    /\ cmdCalls' = cmdCalls \cup {[t |-> t, name |-> n]}
    /\ UNCHANGED <<dataFile, now, nextTick, ticks, groupNameChangeDetected,
                   groupNameRevertInProgress, title, qvars, nvars, xvars>>
    /\ Observe({}, {}, IF IsOn(groupLocks[t], "gclock") /\ Text(groupLocks[t], "groupName") = n
                       THEN {} ELSE {t})

\* its changeThreadTitle settles: lines 477-482
GclockNameDone(c, ok) ==
    /\ c \in cmdCalls
    /\ cmdCalls' = cmdCalls \ {c}
    /\ title' = IF ok THEN [title EXCEPT ![c.t] = c.name] ELSE title
    /\ dataFile' = IF ok THEN Saved(groupLocks, lockKeys) ELSE dataFile
    /\ UNCHANGED <<groupLocks, lockKeys, now, nextTick, ticks, groupNameChangeDetected,
                   groupNameRevertInProgress, qvars, nvars, xvars, heard>>
    /\ Observe({}, {}, {})

\* "/gclock" without a name, lines 485-497: the metadata fetch has returned
\* the current title (a null fetch returns at line 488 and changes nothing)
GclockCurrent(t) ==
    /\ groupLocks' = [groupLocks EXCEPT ![t] = With(With(@, "groupName", title[t]), "gclock", TRUE)]
    /\ lockKeys' = KeysWith(lockKeys, t)
    /\ dataFile' = Saved(groupLocks', lockKeys')
    /\ UNCHANGED <<now, nextTick, ticks, groupNameChangeDetected, groupNameRevertInProgress,
                   title, cmdCalls, qvars, nvars, xvars>>
    /\ Observe({}, {}, {t})

\* "/unlockgname", lines 499-505
UnlockGname(t) ==
    /\ HasKey(lockKeys, t)
    /\ groupLocks' = [groupLocks EXCEPT ![t] = Without(@, "gclock")]
    /\ dataFile' = Saved(groupLocks', lockKeys)
    /\ UNCHANGED <<lockKeys, now, nextTick, ticks, groupNameChangeDetected,
                   groupNameRevertInProgress, title, cmdCalls, qvars, nvars, xvars>>
    /\ Observe({}, {}, {t})

\* ------------------------------------------------------ nickname enforcement
\* group.nick || DEFAULT_NICKNAME (lines 238, 385, 440, 450, 562)
NickWithoutDefault(p) == Text(p, "nick")
Nick(p) == IF Has(p, "nick") /\ p["nick"] # "" THEN p["nick"] ELSE DEFAULT_NICKNAME

\* group.original || {} (lines 389, 451, 559)
Original(p) == IF Has(p, "original") THEN p["original"] ELSE EmptyObj

\* group.original?.[uid] || group.nick || DEFAULT_NICKNAME (lines 253, 526)
Desired(p, u) == IF u \in DOMAIN Original(p) THEN Original(p)[u] ELSE Nick(p)

\* original[user.id] = nick for every user but the operator (lines 405, 452, 562)
OriginalAll(p, nick, who) == With(p, "original", [u \in DOMAIN Original(p) \cup who |-> IF u \in who THEN nick ELSE Original(p)[u]])

\* the closure handed to queueTask: the user and nickname it was built for and
\* the policy object it captured (known by the generation it belongs to)
Task(kind, u, nick, gen) == [kind |-> kind, id |-> 0, uid |-> u, nick |-> nick, gen |-> gen]

\* one task per member in `who`, in participant order
MemberTasks(kind, nick, gen, who) ==
    LET all == [u \in 1..NumMembers |-> Task(kind, u, nick[u], gen)]
    IN SelectSeq(all, LAMBDA x : x.uid \in who)

\* lines 239 and 256: the nickname fetched differs from the enforced one
NeedsFix(current, desired) == current # desired

\* initCheckLoop: the order in which one conversation's fixes are enqueued
SweepTasksMembersFirst(bot, members) == members \o bot
SweepTasks(bot, members) == bot \o members

Room(t, new) == Len(groupQueues[t].tasks) + Len(new) <= MaxQueue

\* the policy as lines 385-391 and 405 of /nicklock on leave it
Locked(p, who) ==
    OriginalAll(With(With(With(With(p, "enabled", TRUE), "nick", Nick(p)),
                          "count", 0), "cooldown", FALSE), Nick(p), who)

\* /nicklock on, lines 381-421, from the return of safeGetThreadInfo
NicklockOn(t) ==
    LET p == groupLocks[t]
        lockedNick == Nick(p)
        q == Locked(p, participants[t])
        new == <<Task("lockBot", BOSS_UID, lockedNick, objGen[t])>>
               \o MemberTasks("lock", [u \in Members |-> lockedNick], objGen[t], participants[t])
    IN /\ Room(t, new)
       /\ groupLocks' = [groupLocks EXCEPT ![t] = q]
       /\ lockKeys' = KeysWith(lockKeys, t)
       /\ dataFile' = Saved(groupLocks', lockKeys')
       /\ EnqueueAll(t, new)
       /\ UNCHANGED <<enqueued, done, tvars, nvars, xvars>>

\* /nicklock off, lines 423-429
NicklockOff(t) ==
    /\ HasKey(lockKeys, t)
    /\ groupLocks' = [groupLocks EXCEPT ![t] = With(@, "enabled", FALSE)]
    /\ dataFile' = Saved(groupLocks', lockKeys)
    /\ UNCHANGED <<lockKeys, qvars, tvars, nvars, xvars>>

\* /nickall, lines 431-468, from the return of safeGetThreadInfo
NickAll(t) ==
    LET data == groupLocks[t]
        nick == Nick(data)
        new == <<Task("allBot", BOSS_UID, nick, objGen[t])>>
               \o MemberTasks("nickall", [u \in Members |-> nick], objGen[t], participants[t])
    IN /\ IsOn(data, "enabled")
       /\ Room(t, new)
       /\ groupLocks' = [groupLocks EXCEPT ![t] = OriginalAll(data, nick, participants[t])]
       /\ dataFile' = Saved(groupLocks', lockKeys)
       /\ EnqueueAll(t, new)
       /\ UNCHANGED <<lockKeys, enqueued, done, tvars, nvars, xvars>>

\* log:subscribe / log:thread-created, lines 553-581, from the return of
\* safeGetThreadInfo
MemberSync(t) ==
    LET g == groupLocks[t]
        new == MemberTasks("sync", [u \in Members |-> Nick(g)], objGen[t], participants[t])
    IN /\ IsOn(g, "enabled")
       /\ Room(t, new)
       /\ groupLocks' = [groupLocks EXCEPT ![t] = OriginalAll(g, Nick(g), participants[t])]
       /\ dataFile' = Saved(groupLocks', lockKeys)
       /\ EnqueueAll(t, new)
       /\ UNCHANGED <<lockKeys, enqueued, done, tvars, nvars, xvars, heard>>

\* the log:user-nickname handler, lines 520-550: the tasks it enqueues
RevertTasksDespiteCooldown(t, u, currentNick) ==
    LET group == groupLocks[t]
        lockedNick == Desired(group, u)
    IN IF ~IsOn(group, "enabled") THEN <<>>
       ELSE IF currentNick # lockedNick THEN <<Task("revert", u, lockedNick, objGen[t])>>
       ELSE <<>>
RevertTasks(t, u, currentNick) ==
    LET group == groupLocks[t]
        lockedNick == Desired(group, u)
    IN IF ~IsOn(group, "enabled") \/ IsOn(group, "cooldown") THEN <<>>
       ELSE IF currentNick # lockedNick THEN <<Task("revert", u, lockedNick, objGen[t])>>
       ELSE <<>>

\* somebody sets user u's nickname to v; the log:user-nickname event reaches
\* the listener (notify) or is dropped
ExternalNick(t, u, v, notify) ==
    LET new == IF notify THEN RevertTasks(t, u, v) ELSE <<>>
    IN /\ changesLeft > 0
       /\ nicknames[t][u] # v
       /\ Room(t, new)
       /\ changesLeft' = changesLeft - 1
       /\ nicknames' = [nicknames EXCEPT ![t][u] = v]
       /\ EnqueueAll(t, new)
       /\ UNCHANGED <<enqueued, done, pvars, tvars, cooldownTimers, objGen, logins, xvars, heard>>

\* initCheckLoop, lines 232-269, for one conversation, from the return of
\* safeGetThreadInfo
Sweep(t) ==
    LET group == groupLocks[t]
        botNick == Nick(group)
        bot == IF NeedsFix(nicknames[t][BOSS_UID], botNick)
               THEN <<Task("initBot", BOSS_UID, botNick, objGen[t])>> ELSE <<>>
        members == MemberTasks("init", [u \in Members |-> Desired(group, u)], objGen[t],
                               {u \in participants[t] : NeedsFix(nicknames[t][u], Desired(group, u))})
        new == SweepTasks(bot, members)
    IN /\ HasKey(lockKeys, t)
       /\ IsOn(group, "enabled")
       /\ new # <<>>
       /\ Room(t, new)
       /\ EnqueueAll(t, new)
       /\ UNCHANGED <<enqueued, done, pvars, tvars, nvars, xvars, heard>>

\* the callback of the setTimeout of line 537: it writes to the object the
\* revert task had captured, which is in the store only if no loadLocks has
\* replaced it
CooldownFire(tm) ==
    /\ tm \in cooldownTimers
    /\ ~MicrotaskPending
    /\ cooldownTimers' = cooldownTimers \ {tm}
    /\ groupLocks' = IF HasKey(lockKeys, tm.t) /\ tm.gen = objGen[tm.t]
                     THEN [groupLocks EXCEPT ![tm.t] = With(With(@, "cooldown", FALSE), "count", 0)]
                     ELSE groupLocks
    /\ UNCHANGED <<lockKeys, dataFile, qvars, tvars, nicknames, objGen, changesLeft, logins, xvars, heard>>

\* loadLocks, lines 106-122
LoadLocksAsParsed(txt) == ParseLocks(txt)
LoadLocks(txt) ==
    LET parsed == ParseLocks(txt)
    IN [t \in Threads |-> IF HasKey(ParseKeys(txt), t) /\ (~Has(parsed[t], "nick") \/ parsed[t]["nick"] = "")
                          THEN With(parsed[t], "nick", DEFAULT_NICKNAME)
                          ELSE parsed[t]]

\* the uncaughtException / unhandledRejection handlers, lines 605-613: a second
\* loginAndRun in the same process; its loadLocks (line 296) replaces every
\* policy object, while queues, drain loops and timers live on
Relogin ==
    /\ logins < MaxLogins
    /\ logins' = logins + 1
    /\ groupLocks' = LoadLocks(dataFile)
    /\ lockKeys' = ParseKeys(dataFile)
    /\ objGen' = [t \in Threads |-> objGen[t] + 1]
    /\ UNCHANGED <<dataFile, qvars, tvars, nicknames, cooldownTimers, changesLeft, xvars, heard>>

\* gracefulExit, lines 616-623, and the next start of the process: saveLocks,
\* then module state as at lines 68-76 and loadLocks
Restart ==
    /\ logins < MaxLogins
    /\ logins' = logins + 1
    /\ dataFile' = Saved(groupLocks, lockKeys)
    /\ groupLocks' = LoadLocks(dataFile')
    /\ lockKeys' = ParseKeys(dataFile')
    /\ objGen' = [t \in Threads |-> objGen[t] + 1]
    /\ cooldownTimers' = {}
    /\ globalActiveCount' = 0
    /\ globalPending' = <<>>
    /\ gateOrder' = <<>>
    /\ groupQueues' = [t \in Threads |-> [running |-> FALSE, tasks |-> <<>>]]
    /\ loops' = [t \in Threads |-> [s \in Slots |-> [pc |-> "off", fn |-> NoTask]]]
    /\ ticks' = [k \in TickSlots |-> TickOff]
    /\ nextTick' = now + GROUP_NAME_CHECK_INTERVAL
    /\ groupNameChangeDetected' = [t \in Threads |-> NoTime]
    /\ groupNameRevertInProgress' = [t \in Threads |-> FALSE]
    /\ firstSeen' = [t \in Threads |-> NoTime]
    /\ cmdCalls' = {}
    /\ UNCHANGED <<enqueued, done, now, title, nicknames, changesLeft, xvars, heard>>

\* ------------------------------------------------------- getDynamicDelay
\* line 138: the cycle position is in a fast band
FastCycleShifted(cycle) == cycle < 5 \/ cycle > 11
FastCycle(cycle) == cycle < 5 \/ cycle >= 11

\* Math.floor(Math.random() * (max - min + 1)) + min, lines 139 and 141, with
\* Math.random() = k / RandomSteps
RandomBetween(min, max, k) == ((k * (max - min + 1)) \div RandomSteps) + min

\* getDynamicDelay, lines 136-143
getDynamicDelay(count, k) ==
    LET cycle == count % 16 IN
    IF FastCycle(cycle)
    THEN RandomBetween(FAST_NICKNAME_DELAY_MIN, FAST_NICKNAME_DELAY_MAX, k)
    ELSE RandomBetween(SLOW_NICKNAME_DELAY_MIN, SLOW_NICKNAME_DELAY_MAX, k)

\* a task calls getDynamicDelay(count) and Math.random() returns k / RandomSteps
CallGetDynamicDelay(k) ==
    /\ delayResult = 0
    /\ delayResult' = getDynamicDelay(delayCount, k)
    /\ UNCHANGED <<delayCount, qvars, pvars, tvars, nvars, fvars, lvars, participants, threw, heard>>

\* --------------------------------------------------- saveLocks on the disk
\* saveLocks, lines 123-132, step by step.  fsp.writeFile opens the temporary
\* file (creating or truncating it), writes the text and closes; fsp.rename
\* then moves it over groupData.json.  Every call uses the same temporary path
\* and nothing orders two calls, so their steps interleave.
\* groupData.json.tmp does not exist
NoFile == <<<<"ENOENT">>>>

Overwrite(old, new) == new \o SubSeq(old, Len(new) + 1, Len(old))

\* line 126: JSON.stringify runs when saveLocks is called
SaveCall(locks, keys) == Append(saves, [pc |-> "open", txt |-> Stringify(locks, keys), fd |-> "none"])

othersSave == <<qvars, tvars, nvars, dvars, lvars, participants, threw, heard>>

\* the handler of /nicklock on for a conversation without a policy: lines
\* 385-391 and 405, then saveLocks at line 418
HandlerSave(t) ==
    /\ Len(saves) < MaxSaves
    /\ ~HasKey(lockKeys, t)
    /\ groupLocks' = [groupLocks EXCEPT ![t] = Locked(@, participants[t])]
    /\ lockKeys' = KeysWith(lockKeys, t)
    /\ saves' = SaveCall(groupLocks', lockKeys')
    /\ UNCHANGED <<dataFile, tmpFile, othersSave>>

\* a member task after its call: lines 410-411
TaskSave(t) ==
    /\ Len(saves) < MaxSaves
    /\ HasKey(lockKeys, t)
    /\ Count(groupLocks[t]) < MaxCount
    /\ groupLocks' = [groupLocks EXCEPT ![t] = With(@, "count", Bump(Count(@)))]
    /\ saves' = SaveCall(groupLocks', lockKeys)
    /\ UNCHANGED <<lockKeys, dataFile, tmpFile, othersSave>>

\* fsp.writeFile(tmp, ..) opens tmp with flag "w": the file is created, or the
\* existing one is emptied under every descriptor open on it
TmpOpen(i) ==
    /\ i \in DOMAIN saves
    /\ saves[i].pc = "open"
    /\ tmpFile' = <<>>
    /\ saves' = [saves EXCEPT ![i].pc = "write", ![i].fd = "tmp"]
    /\ UNCHANGED <<groupLocks, lockKeys, dataFile, othersSave>>

\* it writes the text through its descriptor and closes.  The descriptor
\* follows the file: after another call's rename it is groupData.json itself,
\* and after a second rename a file without a name.
TmpWrite(i) ==
    /\ i \in DOMAIN saves
    /\ saves[i].pc = "write"
    /\ tmpFile' = IF saves[i].fd = "tmp" THEN Overwrite(tmpFile, saves[i].txt) ELSE tmpFile
    /\ dataFile' = IF saves[i].fd = "data" THEN Overwrite(dataFile, saves[i].txt) ELSE dataFile
    /\ saves' = [saves EXCEPT ![i].pc = "rename", ![i].fd = "none"]
    /\ UNCHANGED <<groupLocks, lockKeys, othersSave>>

\* fsp.rename(tmp, dataFile), line 127; ENOENT when another call has renamed
\* tmp away, caught at line 129
TmpRename(i) ==
    /\ i \in DOMAIN saves
    /\ saves[i].pc = "rename"
    /\ IF tmpFile = NoFile
       THEN /\ saves' = [saves EXCEPT ![i].pc = "failed"]
            /\ UNCHANGED <<dataFile, tmpFile>>
       ELSE /\ dataFile' = tmpFile
            /\ tmpFile' = NoFile
            /\ saves' = [j \in DOMAIN saves |->
                            IF j = i THEN [saves[j] EXCEPT !.pc = "done"]
                            ELSE IF saves[j].fd = "tmp" THEN [saves[j] EXCEPT !.fd = "data"]
                            ELSE IF saves[j].fd = "data" THEN [saves[j] EXCEPT !.fd = "gone"]
                            ELSE saves[j]]
    /\ UNCHANGED <<groupLocks, lockKeys, othersSave>>

InitQ ==
    /\ globalActiveCount = 0
    /\ globalPending = <<>>
    /\ groupQueues = [t \in Threads |-> [running |-> FALSE, tasks |-> <<>>]]
    /\ loops = [t \in Threads |-> [s \in Slots |-> [pc |-> "off", fn |-> NoTask]]]
    /\ enqueued = [t \in Threads |-> 0]
    /\ done = [t \in Threads |-> {}]
    /\ gateOrder = <<>>

InitP ==
    /\ groupLocks = [t \in Threads |-> EmptyObj]
    /\ lockKeys = <<>>
    /\ dataFile = Stringify(groupLocks, lockKeys)      \* ensureDataFile, line 103

InitT ==
    /\ now = 0
    /\ nextTick = GROUP_NAME_CHECK_INTERVAL
    /\ ticks = [k \in TickSlots |-> TickOff]
    /\ groupNameChangeDetected = [t \in Threads |-> NoTime]
    /\ groupNameRevertInProgress = [t \in Threads |-> FALSE]
    /\ title = [t \in Threads |-> "X"]
    /\ firstSeen = [t \in Threads |-> NoTime]
    /\ cmdCalls = {}

InitN ==
    /\ nicknames = [t \in Threads |-> [u \in Users |-> "Z"]]
    /\ cooldownTimers = {}
    /\ objGen = [t \in Threads |-> 0]
    /\ changesLeft = MaxChanges
    /\ logins = 0

\* what a successful pass of loginAndRun registers: the setInterval calls of
\* lines 298, 336, 355 and 365 and the listenMqtt callback of line 368
Kinds == {"poll", "heartbeat", "backup", "sweep", "listen"}
NoTimers == [x \in Kinds |-> 0]
OneSession == [x \in Kinds |-> 1]
Registered(tm) == [x \in Kinds |-> Min(MaxSessions, tm[x] + 1)]

\* api.removeAllListeners() (lines 347, 607)
ListenersRemoved(tm) == [tm EXCEPT !["listen"] = 0]

InitX ==
    /\ tmpFile = NoFile
    /\ saves = <<>>
    /\ delayCount = 0
    /\ delayResult = 0
    /\ loginPc = "running"
    /\ loginAttempts = 0
    /\ backoff = 0
    /\ failures = 0
    /\ caught = "nothing"
    /\ timers = OneSession
    /\ participants = [t \in Threads |-> Members]
    /\ heard = <<>>
    /\ threw = [t \in Threads |-> {}]

Init == InitQ /\ InitP /\ InitT /\ InitN /\ InitX

Next ==
    \/ \E t \in Threads : QueueTask(t)
    \/ \E t \in Threads, s \in Slots : Resume(t, s)
    \/ \E t \in Threads, s \in Slots : CallOk(t, s)
    \/ \E t \in Threads, s \in Slots : CallFail(t, s)
    \/ \E t \in Threads, s \in Slots : DelayDone(t, s)
    \/ \E t \in Threads, s \in Slots : PaceDone(t, s)

Spec == Init /\ [][Next]_vars

NextT ==
    \/ \E dt \in Elapse : Advance(dt)
    \/ \E k \in TickSlots : TickStart(k)
    \/ \E k \in TickSlots, ok \in BOOLEAN : FetchDone(k, ok)
    \/ \E k \in TickSlots, ok \in BOOLEAN : RevertDone(k, ok)
    \/ \E t \in Watched, n \in Names, notify \in BOOLEAN : Rename(t, n, notify)
    \/ \E t \in Watched, n \in Names : GclockName(t, n) /\ UNCHANGED heard
    \/ \E c \in cmdCalls, ok \in BOOLEAN : GclockNameDone(c, ok)
    \/ \E t \in Watched : GclockCurrent(t) /\ UNCHANGED heard
    \/ \E t \in Watched : UnlockGname(t) /\ UNCHANGED heard

SpecTitle == Init /\ [][NextT]_vars

\* nickname enforcement in one conversation: the commands, the events, the
\* sweep, the cooldown timer, re-login and restart, and the queue that runs the
\* tasks. No other conversation uses the gate, so acquireGlobalSlot always
\* takes its fast path here.
NextN ==
    \/ \E t \in Followed : NicklockOn(t) /\ UNCHANGED heard
    \/ \E t \in Followed : NicklockOff(t) /\ UNCHANGED heard
    \/ \E t \in Followed : NickAll(t) /\ UNCHANGED heard
    \/ \E t \in Followed : MemberSync(t)
    \/ \E t \in Followed, u \in Users, v \in Nicks, notify \in BOOLEAN : ExternalNick(t, u, v, notify)
    \/ \E t \in Followed : Sweep(t)
    \/ \E tm \in cooldownTimers : CooldownFire(tm)
    \/ Relogin
    \/ Restart
    \/ \E t \in Followed, s \in Slots : CallOk(t, s)
    \/ \E t \in Followed, s \in Slots : CallFail(t, s)
    \/ \E t \in Followed, s \in Slots : DelayDone(t, s)
    \/ \E t \in Followed, s \in Slots : PaceDone(t, s)

SpecNick == Init /\ [][NextN]_vars

\* timers fire and outbound calls return
FairNick ==
    /\ \A t \in Followed, g \in 0..MaxLogins : WF_vars(CooldownFire([t |-> t, gen |-> g]))
    /\ \A t \in Followed, s \in Slots : WF_vars(CallOk(t, s) \/ CallFail(t, s))
    /\ \A t \in Followed, s \in Slots : WF_vars(DelayDone(t, s))
    /\ \A t \in Followed, s \in Slots : WF_vars(PaceDone(t, s))

FairSpecNick == SpecNick /\ FairNick

\* the same with every log:user-nickname event delivered to the listener
NextReactor ==
    \/ \E t \in Followed : NicklockOn(t) /\ UNCHANGED heard
    \/ \E t \in Followed : NicklockOff(t) /\ UNCHANGED heard
    \/ \E t \in Followed : NickAll(t) /\ UNCHANGED heard
    \/ \E t \in Followed : MemberSync(t)
    \/ \E t \in Followed, u \in Users, v \in Nicks : ExternalNick(t, u, v, TRUE)
    \/ \E t \in Followed : Sweep(t)
    \/ \E tm \in cooldownTimers : CooldownFire(tm)
    \/ Relogin
    \/ Restart
    \/ \E t \in Followed, s \in Slots : CallOk(t, s)
    \/ \E t \in Followed, s \in Slots : CallFail(t, s)
    \/ \E t \in Followed, s \in Slots : DelayDone(t, s)
    \/ \E t \in Followed, s \in Slots : PaceDone(t, s)

\* /nicklock on in conversations that have no policy yet, every call
\* succeeding and nothing else happening
NextLockOn ==
    \/ \E t \in Threads : ~HasKey(lockKeys, t) /\ NicklockOn(t) /\ UNCHANGED heard
    \/ \E t \in Threads, s \in Slots : Resume(t, s)
    \/ \E t \in Threads, s \in Slots : CallOk(t, s)
    \/ \E t \in Threads, s \in Slots : DelayDone(t, s)
    \/ \E t \in Threads, s \in Slots : PaceDone(t, s)

SpecLockOn == Init /\ [][NextLockOn]_vars

InitReactor ==
    /\ InitQ /\ InitP /\ InitT /\ InitX
    /\ nicknames = [t \in Threads |-> [u \in Users |-> "Z"]]
    /\ cooldownTimers = {}
    /\ objGen = [t \in Threads |-> 0]
    /\ changesLeft = MaxEvents
    /\ logins = 0

SpecReactor == InitReactor /\ [][NextReactor]_vars

\* the sweep alone: groupData.json holds enabled policies at the start, the
\* listener gets no nickname events, metadata fetches and nickname-set calls
\* succeed
StoredPolicy(original) ==
    [enabled |-> TRUE, nick |-> DEFAULT_NICKNAME, original |-> original, count |-> 0, cooldown |-> FALSE]

InitSweep ==
    /\ InitQ /\ InitT /\ InitN /\ InitX
    /\ lockKeys = [i \in 1..NumEnforced |-> i]
    /\ \E withOriginal \in SUBSET Enforced :
          dataFile = Stringify([t \in Threads |->
                                   IF t \in withOriginal
                                   THEN StoredPolicy([u \in Members |-> DEFAULT_NICKNAME])
                                   ELSE StoredPolicy(EmptyObj)], lockKeys)
    /\ groupLocks = LoadLocks(dataFile)

NextSweep ==
    \/ \E t \in Enforced : Sweep(t)
    \/ \E t \in Enforced, u \in Users, v \in Nicks : ExternalNick(t, u, v, FALSE)
    \/ \E t \in Enforced, s \in Slots : Resume(t, s)
    \/ \E t \in Enforced, s \in Slots : CallOk(t, s)
    \/ \E t \in Enforced, s \in Slots : DelayDone(t, s)
    \/ \E t \in Enforced, s \in Slots : PaceDone(t, s)

\* the sweep runs at login and every five minutes (lines 364-365); continuations
\* run, calls return, sleeps end
FairSweep ==
    /\ \A t \in Enforced : WF_vars(Sweep(t))
    /\ \A t \in Enforced, s \in Slots : WF_vars(Resume(t, s))
    /\ \A t \in Enforced, s \in Slots : WF_vars(CallOk(t, s))
    /\ \A t \in Enforced, s \in Slots : WF_vars(DelayDone(t, s))
    /\ \A t \in Enforced, s \in Slots : WF_vars(PaceDone(t, s))

SpecSweep == InitSweep /\ [][NextSweep]_vars /\ FairSweep

\* the policy store under the operator's commands, across re-login and restart
NextStore ==
    \/ \E t \in Watched : NicklockOn(t) /\ UNCHANGED heard
    \/ \E t \in Watched : NicklockOff(t) /\ UNCHANGED heard
    \/ \E t \in Watched : NickAll(t) /\ UNCHANGED heard
    \/ \E t \in Watched, n \in Names : GclockName(t, n) /\ UNCHANGED heard
    \/ \E c \in cmdCalls, ok \in BOOLEAN : GclockNameDone(c, ok)
    \/ \E t \in Watched : GclockCurrent(t) /\ UNCHANGED heard
    \/ \E t \in Watched : UnlockGname(t) /\ UNCHANGED heard
    \/ Relogin
    \/ Restart
    \/ \E t \in Watched, s \in Slots : CallOk(t, s)
    \/ \E t \in Watched, s \in Slots : CallFail(t, s)
    \/ \E t \in Watched, s \in Slots : DelayDone(t, s)
    \/ \E t \in Watched, s \in Slots : PaceDone(t, s)

SpecStore == Init /\ [][NextStore]_vars

\* saveLocks calls from handlers and tasks, and their file operations
NextSave ==
    \/ \E t \in Enforced : HandlerSave(t)
    \/ \E t \in Enforced : TaskSave(t)
    \/ \E i \in 1..MaxSaves : TmpOpen(i)
    \/ \E i \in 1..MaxSaves : TmpWrite(i)
    \/ \E i \in 1..MaxSaves : TmpRename(i)

SpecSave == Init /\ [][NextSave]_vars

\* getDynamicDelay on every count up to MaxDelayCount
InitDelay ==
    /\ InitQ /\ InitP /\ InitT /\ InitN
    /\ tmpFile = NoFile /\ saves = <<>>
    /\ loginPc = "running" /\ loginAttempts = 0 /\ backoff = 0 /\ failures = 0
    /\ caught = "nothing"
    /\ timers = OneSession
    /\ participants = [t \in Threads |-> Members]
    /\ heard = <<>>
    /\ threw = [t \in Threads |-> {}]
    /\ delayCount \in 0..MaxDelayCount
    /\ delayResult = 0

NextDelay == \E k \in 0..(RandomSteps - 1) : CallGetDynamicDelay(k)

SpecDelay == InitDelay /\ [][NextDelay]_vars

\* ------------------------------------------------------------- claims

\* C1: the number of callers that have returned from acquireGlobalSlot and not
\* yet called releaseGlobalSlot never exceeds GLOBAL_MAX_CONCURRENT.
GateBound == Cardinality(Holders) <= GLOBAL_MAX_CONCURRENT

\* outbound mutation calls in flight: changeNickname of a queued task, the
\* watchdog's title revert, the title-set of "/gclock <name>"
MutationsInFlight ==
    Cardinality({c \in Threads \X Slots : loops[c[1]][c[2]].pc = "call"})
    + Cardinality({k \in TickSlots : ticks[k].pc = "revert"})
    + Cardinality(cmdCalls)

\* C2: with gate capacity 1, no two outbound mutation calls, whatever their
\* origin, are in flight at the same time.
SerializedMutations == GLOBAL_MAX_CONCURRENT = 1 => MutationsInFlight <= 1

GateFifo ==
    [][\A t \in Threads, s \in Slots :
          (loops[t][s].pc \notin Holding /\ loops'[t][s].pc \in Holding)
              => (gateOrder = <<>> \/ Head(gateOrder) = <<t, s>>)]_vars

\* a poll tick issues the revert call for t in this step
RevertIssued(t) ==
    \E k \in TickSlots : /\ ticks[k].pc = "fetch"
                         /\ ticks[k].keys[ticks[k].i] = t
                         /\ ticks'[k].pc = "revert"

\* a poll tick fetched t in this step and saw a title that differs
PollSawDivergence(t) ==
    \E k \in TickSlots : /\ ticks[k].pc = "fetch"
                         /\ ticks[k].keys[ticks[k].i] = t
                         /\ ticks'[k] # ticks[k]
                         /\ groupNameChangeDetected'[t] # NoTime

\* C5: with title enforcement on and a divergence first detected at T0 that
\* stays, no poll tick before T0 + GROUP_NAME_REVERT_DELAY issues a revert, and
\* a poll tick at or after it issues the one revert of that divergence.
TitleRevertTiming ==
    [][\A t \in Threads :
          IsOn(groupLocks[t], "gclock") =>
            /\ (RevertIssued(t) /\ firstSeen[t] # Unsettled) =>
                  (firstSeen[t] # NoTime /\ now - firstSeen[t] >= GROUP_NAME_REVERT_DELAY)
            /\ (PollSawDivergence(t) /\ firstSeen[t] >= 0
                    /\ now - firstSeen[t] >= GROUP_NAME_REVERT_DELAY) => RevertIssued(t)]_vars
\* a task of conversation t has returned from its outbound call in this step
TaskStep(t) == \E s \in Slots : loops[t][s].pc = "call" /\ loops'[t][s].pc = "delay"

\* the tasks handed to queueTask for conversation t in this step, in order
NewTasks(t) ==
    LET before == groupQueues[t].tasks
        started == {s \in Slots : loops[t][s].pc = "off" /\ loops'[t][s].pc # "off"}
        after == (IF started = {} THEN <<>> ELSE <<loops'[t][CHOOSE s \in started : TRUE].fn>>)
                 \o groupQueues'[t].tasks
    IN SubSeq(after, Len(before) + 1, Len(after))

\* C6: whenever a successful corrective nickname task raises a policy's count
\* to NICKNAME_CHANGE_LIMIT or above, that policy's cooldown is true after the
\* task step, whichever path enqueued the task.
CooldownTrigger ==
    [][\A t \in Followed :
          (/\ HasKey(lockKeys, t)
           /\ TaskStep(t)
           /\ Count(groupLocks'[t]) > Count(groupLocks[t])
           /\ LimitReached(Count(groupLocks'[t])))
          => IsOn(groupLocks'[t], "cooldown")]_vars

\* C7: while a conversation's policy has cooldown = true, no step adds a
\* nickname task to that conversation's queue.
CooldownBlocksEnqueue ==
    [][\A t \in Followed :
          (IsOn(groupLocks[t], "cooldown") /\ IsOn(groupLocks'[t], "cooldown"))
          => NewTasks(t) = <<>>]_vars

\* C8: whenever the policy in the store has cooldown = true, it eventually has
\* cooldown = false and count = 0, also across re-login and restart.
CooldownLifts ==
    \A t \in Followed :
        IsOn(groupLocks[t], "cooldown")
            ~> (~IsOn(groupLocks[t], "cooldown") /\ Count(groupLocks[t]) = 0)

Enforces(t) ==
    IsOn(groupLocks[t], "enabled") => \A u \in Users : nicknames[t][u] = Desired(groupLocks[t], u)

\* C9: with nickname events dropped, external changes stopping and all calls
\* succeeding, under fair scheduling of the sweep and the queues every user's
\* nickname in every enabled conversation eventually equals its enforced value
\* for good, and a sweep that fixes the operator's nickname enqueues that fix
\* before the members' fixes.
SweepConsistency ==
    /\ <>[](\A t \in Enforced : Enforces(t))
    /\ [][\A t \in Enforced :
            LET new == NewTasks(t) IN
            /\ \A i \in DOMAIN new : new[i].kind = "initBot" => i = 1
            /\ (new # <<>> /\ NeedsFix(nicknames[t][BOSS_UID], Nick(groupLocks[t])))
                  => new[1].kind = "initBot"]_vars

\* every external change has been made, a sweep's member task has run, and
\* all nicknames are the enforced ones
SweepConsistencyWitness ==
    /\ changesLeft = 0
    /\ \A t \in Enforced : IsOn(groupLocks[t], "enabled") /\ Enforces(t)
    /\ \A t \in Enforced : groupQueues[t].tasks = <<>> /\ ~groupQueues[t].running
    /\ \E t \in Enforced : Count(groupLocks[t]) > 0

\* the mapping with nick = DEFAULT_NICKNAME in every policy that has none
NickDefaulted(locks, keys) ==
    [t \in Threads |-> IF HasKey(keys, t) /\ Nick(locks[t]) # Text(locks[t], "nick")
                       THEN With(locks[t], "nick", DEFAULT_NICKNAME)
                       ELSE locks[t]]

\* C10 as stated: saveLocks followed by loadLocks yields the mapping saved.
RoundTripIdentity ==
    /\ LoadLocks(Saved(groupLocks, lockKeys)) = groupLocks
    /\ ParseKeys(Saved(groupLocks, lockKeys)) = lockKeys

\* C10: saveLocks followed by loadLocks yields the mapping saved, with
\* nick = DEFAULT_NICKNAME added to every policy that had no nick.
RoundTripNickDefaulted ==
    /\ LoadLocks(Saved(groupLocks, lockKeys)) = NickDefaulted(groupLocks, lockKeys)
    /\ ParseKeys(Saved(groupLocks, lockKeys)) = lockKeys

\* a policy made by /gclock alone, with no nick, is in the store and has been
\* written to groupData.json
RoundTripWitness ==
    \E t \in Watched :
        /\ HasKey(lockKeys, t)
        /\ IsOn(groupLocks[t], "gclock")
        /\ ~Has(groupLocks[t], "enabled")
        /\ HasKey(ParseKeys(dataFile), t)
        /\ ~Has(ParseLocks(dataFile)[t], "nick")
\* the texts groupData.json may hold: the one written at start and the ones
\* stringified by a saveLocks call
Serializations == {Stringify([t \in Threads |-> EmptyObj], <<>>)} \cup {saves[i].txt : i \in DOMAIN saves}

\* the saveLocks call that stringified text c (every call of the runs
\* considered stringifies a different mapping); 0 for the text written at start
SaveOf(c) == IF \E i \in DOMAIN saves : saves[i].txt = c
             THEN CHOOSE i \in DOMAIN saves : saves[i].txt = c ELSE 0

\* C11: under any interleaving of saveLocks calls, groupData.json always holds
\* the complete serialization of a mapping that was in memory at a save, and
\* is never replaced by the serialization of an older save.
AtomicPolicyWrites ==
    /\ [](dataFile \in Serializations)
    /\ [][(dataFile' # dataFile /\ dataFile' \in Serializations)
             => SaveOf(dataFile') >= SaveOf(dataFile)]_vars
\* C12: getDynamicDelay(c) is an integer of the fast band when c mod 16 is in
\* {0..4, 11..15} and an integer of the slow band when c mod 16 is in {5..10}.
DelayBands ==
    delayResult # 0 =>
        IF delayCount % 16 \in (0..4) \cup (11..15)
        THEN delayResult \in FAST_NICKNAME_DELAY_MIN..FAST_NICKNAME_DELAY_MAX
        ELSE delayResult \in SLOW_NICKNAME_DELAY_MIN..SLOW_NICKNAME_DELAY_MAX

\* count 27 = 16 + 11, the first fast count after the slow band of the second
\* cycle, has been given a delay above the fast minimum
DelayBandsWitness ==
    /\ delayCount = 27
    /\ delayResult > FAST_NICKNAME_DELAY_MIN
    /\ delayResult <= FAST_NICKNAME_DELAY_MAX
\* somebody has set u's nickname in t to v in this step
NicknameEvent(t, u, v) ==
    /\ changesLeft' = changesLeft - 1
    /\ nicknames[t][u] # v
    /\ nicknames'[t][u] = v

\* original[U] if present, otherwise policy.nick, otherwise the default
DesiredAsSpecified(p, u) ==
    IF Has(p, "original") /\ u \in DOMAIN p["original"] THEN p["original"][u]
    ELSE IF Has(p, "nick") THEN p["nick"]
    ELSE DEFAULT_NICKNAME

TasksAlive(t) ==
    {groupQueues[t].tasks[i] : i \in DOMAIN groupQueues[t].tasks}
        \cup {loops[t][s].fn : s \in {r \in Slots : loops[t][r].pc \notin {"off", "pace"}}}

\* conversation t's queue has drained and its loop has ended
Drained(t) == groupQueues[t].tasks = <<>> /\ \A s \in Slots : loops[t][s].pc = "off"

\* C14: after /nicklock on in a conversation with n members and no stored
\* nickname, all calls succeeding: the operator's call is issued before any
\* member's, every call uses the default nickname, and at the end count = n
\* and original maps exactly the n members to the default nickname.
LockOnOutcome ==
    \A t \in Threads :
        HasKey(lockKeys, t) =>
            /\ \A fn \in TasksAlive(t) : fn.nick = DEFAULT_NICKNAME
            /\ \A u \in Users : nicknames[t][u] \in {"Z", DEFAULT_NICKNAME}
            /\ (\E s \in Slots : loops[t][s].pc \in Holding /\ loops[t][s].fn.uid # BOSS_UID)
                  => nicknames[t][BOSS_UID] = DEFAULT_NICKNAME
            /\ (\E u \in participants[t] : nicknames[t][u] = DEFAULT_NICKNAME)
                  => nicknames[t][BOSS_UID] = DEFAULT_NICKNAME
            /\ Drained(t) =>
                  /\ Count(groupLocks[t]) = Cardinality(participants[t])
                  /\ Original(groupLocks[t]) = [u \in participants[t] |-> DEFAULT_NICKNAME]
                  /\ \A u \in Users : nicknames[t][u] = DEFAULT_NICKNAME

\* /nicklock on has run to its end in every conversation
LockOnOutcomeWitness ==
    \A t \in Threads :
        /\ HasKey(lockKeys, t)
        /\ Drained(t)
        /\ Count(groupLocks[t]) = NumMembers
        /\ nicknames[t][BOSS_UID] = DEFAULT_NICKNAME
\* ---------------------------------------------------------------------
\* loginAndRun (lines 280-599) and loadAppState (lines 214-225)

\* what appstate.json can hold when loadAppState reads it
AppStateFiles == {"array", "object", "garbage", "ENOENT"}

\* lines 216-220: readFile, JSON.parse and the Array.isArray test
\* all succeed
AppStateLoads(file) == file = "array"

\* line 594
Backoff == Min(60, (loginAttempts + 1) * 5)

\* lines 592-596: the catch of the loop logs, computes the backoff and sleeps
Catch(e) ==
    /\ caught' = e
    /\ backoff' = Backoff
    /\ loginPc' = "sleep"

\* lines 282-285: the head of the loop reads file from appstate.json; when
\* loadAppState throws (line 223) the throw lands in the catch of line 592,
\* else line 285 counts the attempt and line 286 calls the login library
LoadAppState(file) ==
    /\ loginPc = "load"
    /\ IF AppStateLoads(file)
       THEN /\ loginAttempts < MaxAttempts
            /\ loginAttempts' = loginAttempts + 1
            /\ loginPc' = "login"
            /\ caught' = "nothing"
            /\ UNCHANGED <<backoff, failures>>
       ELSE /\ Catch("appstate")
            /\ UNCHANGED <<loginAttempts, failures>>
    /\ UNCHANGED timers
    /\ UNCHANGED <<qvars, pvars, tvars, nvars, fvars, dvars, participants, threw, heard>>

\* line 288: the login library calls back with an error
LoginFails ==
    /\ loginPc = "login"
    /\ failures' = failures + 1
    /\ Catch("login")
    /\ UNCHANGED <<loginAttempts, timers>>
    /\ UNCHANGED <<qvars, pvars, tvars, nvars, fvars, dvars, participants, threw, heard>>

\* lines 288-591: the login library calls back with the api; the timers and
\* the listener are set up, loginAttempts is reset and the loop is left
LoginOk ==
    /\ loginPc = "login"
    /\ loginAttempts' = 0
    /\ failures' = 0
    /\ loginPc' = "running"
    /\ timers' = Registered(timers)
    /\ UNCHANGED <<backoff, caught>>
    /\ UNCHANGED <<qvars, pvars, tvars, nvars, fvars, dvars, participants, threw, heard>>

\* line 596 and line 282: the sleep ends and the loop goes round
SleepDone ==
    /\ loginPc = "sleep"
    /\ loginPc' = "load"
    /\ UNCHANGED <<loginAttempts, backoff, failures, caught, timers>>
    /\ UNCHANGED <<qvars, pvars, tvars, nvars, fvars, dvars, participants, threw, heard>>

\* what makes the session reconnect: an uncaught exception (lines 605-609),
\* an unhandled rejection (lines 610-613), or the heartbeat's FORCE_RECONNECT
\* (lines 344-349), which is thrown in a timer callback and so arrives as an
\* unhandled rejection
Causes == {"uncaughtException", "unhandledRejection", "FORCE_RECONNECT"}

\* lines 605-613: the handler calls loginAndRun again; the listeners are
\* removed at line 607 or at line 347, and no timer is cleared
Reconnect(cause) ==
    /\ loginPc = "running"
    /\ loginPc' = "load"
    /\ timers' = IF cause \in {"uncaughtException", "FORCE_RECONNECT"}
                 THEN ListenersRemoved(timers)
                 ELSE timers
    /\ UNCHANGED <<loginAttempts, backoff, failures, caught>>
    /\ UNCHANGED <<qvars, pvars, tvars, nvars, fvars, dvars, participants, threw, heard>>

\* lines 616-623: SIGINT or SIGTERM ends the process
GracefulExit ==
    /\ loginPc # "exited"
    /\ loginPc' = "exited"
    /\ timers' = NoTimers
    /\ UNCHANGED <<loginAttempts, backoff, failures, caught>>
    /\ UNCHANGED <<qvars, pvars, tvars, nvars, fvars, dvars, participants, threw, heard>>

\* line 602: the process starts with a call of loginAndRun
InitLogin ==
    /\ InitQ /\ InitP /\ InitT /\ InitN
    /\ tmpFile = NoFile
    /\ saves = <<>>
    /\ delayCount = 0
    /\ delayResult = 0
    /\ loginPc = "load"
    /\ loginAttempts = 0
    /\ backoff = 0
    /\ failures = 0
    /\ caught = "nothing"
    /\ timers = NoTimers
    /\ participants = [t \in Threads |-> Members]
    /\ heard = <<>>
    /\ threw = [t \in Threads |-> {}]

NextLogin ==
    \/ \E file \in AppStateFiles : LoadAppState(file)
    \/ LoginFails
    \/ LoginOk
    \/ SleepDone
    \/ \E cause \in Causes : Reconnect(cause)
    \/ GracefulExit

SpecLogin == InitLogin /\ [][NextLogin]_vars

\* C15: when appstate.json is unreadable or does not parse as an array,
\* loginAndRun does not sleep and go round its loop: it rejects to its caller.
CredentialFailureFatal ==
    [][(loginPc = "load" /\ caught' = "appstate") => loginPc' = "rejected"]_vars

\* C16: after the k-th consecutive failed login attempt the wait before the
\* next attempt is min(60, 5k) seconds; while the process is not shutting
\* down a failure is always followed by a sleep and a new pass, and
\* loginAttempts is 0 once a login has succeeded.
LoginBackoff ==
    /\ (loginPc = "sleep" /\ caught = "login") => backoff = Min(60, 5 * failures)
    /\ loginPc = "running" => loginAttempts = 0
    /\ loginPc \in {"load", "login", "sleep", "running", "exited"}
\* ---------------------------------------------------------------------
\* membership of a conversation and the original snapshot

\* member u leaves conversation t; the listener is given a log:unsubscribe
\* event, which no branch of the handler (lines 374-583) acts on
Leave(t, u) ==
    /\ u \in participants[t]
    /\ participants' = [participants EXCEPT ![t] = @ \ {u}]
    /\ UNCHANGED <<qvars, pvars, tvars, nvars, fvars, dvars, lvars, threw, heard>>

\* user u joins conversation t; the log:subscribe event it raises is
\* handled by MemberSync
Join(t, u) ==
    /\ u \in Members \ participants[t]
    /\ participants' = [participants EXCEPT ![t] = @ \cup {u}]
    /\ UNCHANGED <<qvars, pvars, tvars, nvars, fvars, dvars, lvars, threw, heard>>

NextMembers ==
    \/ \E t \in Followed : NicklockOn(t) /\ UNCHANGED heard
    \/ \E t \in Followed : NicklockOff(t) /\ UNCHANGED heard
    \/ \E t \in Followed : NickAll(t) /\ UNCHANGED heard
    \/ \E t \in Followed : MemberSync(t)
    \/ \E t \in Followed, u \in Members : Leave(t, u)
    \/ \E t \in Followed, u \in Members : Join(t, u)
    \/ \E t \in Followed, s \in Slots : CallOk(t, s)
    \/ \E t \in Followed, s \in Slots : CallFail(t, s)
    \/ \E t \in Followed, s \in Slots : DelayDone(t, s)
    \/ \E t \in Followed, s \in Slots : PaceDone(t, s)

SpecMembers == Init /\ [][NextMembers]_vars

\* C17: in every reachable state the keys of every policy's original are
\* members of its conversation, also after members have left.
SnapshotWithinMembership ==
    \A t \in Threads :
        HasKey(lockKeys, t) => DOMAIN Original(groupLocks[t]) \subseteq participants[t]
\* ---------------------------------------------------------------------
\* the listener's message branch, lines 369-506

\* the texts a message body is made of: a head, and for "/gclock <name>" the
\* name after it
Heads == {"/nicklock on", "/nicklock off", "/Nicklock Off", "/nickall",
          "/gclock ", "/GCLOCK ", "/gclock", "/unlockgname", "hello"}

\* String.prototype.toLowerCase on those heads (line 380)
toLowerCase(head) ==
    CASE head = "/Nicklock Off" -> "/nicklock off"
      [] head = "/GCLOCK " -> "/gclock "
      [] OTHER -> head

\* the bodies of the message events given to the listener
Bodies ==
    {[head |-> h, rest |-> ""] : h \in Heads \ {"/gclock ", "/GCLOCK "}}
        \cup {[head |-> h, rest |-> n] : h \in {"/gclock ", "/GCLOCK "}, n \in Names}

\* line 379: event.type === "message" && senderID === BOSS_UID
AdmittedWhoever(senderID) == TRUE
Admitted(senderID) == senderID = BOSS_UID

\* lines 381-505: the command the body names, if any
Command(t, body) ==
    LET lc == toLowerCase(body.head)
    IN CASE lc = "/nicklock on" -> NicklockOn(t)
         [] lc = "/nicklock off" -> NicklockOff(t)
         [] lc = "/nickall" -> NickAll(t)
         [] lc = "/gclock " -> GclockName(t, body.rest)
         [] lc = "/gclock" -> GclockCurrent(t)
         [] lc = "/unlockgname" -> UnlockGname(t)
         [] OTHER -> UNCHANGED <<qvars, pvars, tvars, nvars, xvars>>

\* the listener is given a message event of conversation t; a message event
\* has no logMessageType, so the branches after line 506 pass it by
OnMessage(t, senderID, body) ==
    /\ heard' = <<[threadID |-> t, senderID |-> senderID, body |-> body]>>
    /\ IF Admitted(senderID)
       THEN Command(t, body)
       ELSE UNCHANGED <<qvars, pvars, tvars, nvars, xvars>>

NextCommands ==
    \/ \E t \in Followed, senderID \in Users, body \in Bodies : OnMessage(t, senderID, body)
    \/ \E c \in cmdCalls, ok \in BOOLEAN : GclockNameDone(c, ok)
    \/ \E t \in Followed, s \in Slots : CallOk(t, s)
    \/ \E t \in Followed, s \in Slots : CallFail(t, s)
    \/ \E t \in Followed, s \in Slots : DelayDone(t, s)
    \/ \E t \in Followed, s \in Slots : PaceDone(t, s)

SpecCommands == Init /\ [][NextCommands]_vars

\* C18: a message whose sender is not the operator, whatever its body,
\* changes no policy, enqueues no task and issues no mutation call.
OperatorOnly ==
    [][(heard' # heard /\ heard'[1].senderID # BOSS_UID)
          => UNCHANGED <<qvars, pvars, tvars, nvars, xvars>>]_vars

\* a member has just sent "/nicklock off" (in capitals or not) to a
\* conversation whose lock is on, and it is still on
OperatorOnlyWitness ==
    /\ heard # <<>>
    /\ heard[1].senderID # BOSS_UID
    /\ toLowerCase(heard[1].body.head) = "/nicklock off"
    /\ HasKey(lockKeys, heard[1].threadID)
    /\ IsOn(groupLocks[heard[1].threadID], "enabled")
\* ---------------------------------------------------------------------
\* progress of the queues

\* continuations run, outbound calls settle and timers fire
FairQueue ==
    /\ \A t \in Threads, s \in Slots : WF_vars(Resume(t, s))
    /\ \A t \in Threads, s \in Slots : WF_vars(CallOk(t, s) \/ CallFail(t, s))
    /\ \A t \in Threads, s \in Slots : WF_vars(DelayDone(t, s))
    /\ \A t \in Threads, s \in Slots : WF_vars(PaceDone(t, s))

FairSpecQueue == Spec /\ FairQueue

\* task i of conversation t has been started (line 171)
Started(t, i) ==
    \/ i \in done[t]
    \/ \E s \in Slots : loops[t][s].pc \in Holding /\ loops[t][s].fn.id = i

\* tasks are left in the queue of t only while a drain loop is there to take them
Attended(t) ==
    groupQueues[t].tasks # <<>> =>
        /\ groupQueues[t].running
        /\ \E s \in Slots : loops[t][s].pc \in {"waiting", "woken", "call", "delay", "pace"}

\* the step in which the task run by <<t, s>> throws
Throws(t, s) ==
    /\ loops[t][s].pc = "call"
    /\ loops[t][s].fn.id \in threw'[t] \ threw[t]

\* C19: every task given to queueTask is eventually started when the tasks
\* before it terminate, thrown or not; a task that throws gives its slot of
\* the gate back and its loop goes on to the pacing sleep; and no task is
\* ever in a queue that no drain loop is running for.
QueueProgress ==
    /\ \A t \in Threads, i \in 1..MaxTasks : (enqueued[t] >= i) ~> Started(t, i)
    /\ [][\A t \in Threads, s \in Slots :
            Throws(t, s) => /\ globalActiveCount' = globalActiveCount - 1
                            /\ loops'[t][s].pc = "pace"]_vars
    /\ [](\A t \in Threads : Attended(t))

\* a conversation's last task has settled after its first one threw, and
\* so has a task of another conversation
QueueProgressWitness ==
    \E t \in Threads :
        /\ 1 \in threw[t]
        /\ MaxTasks \in done[t]
        /\ \E u \in Threads \ {t} : done[u] # {}
\* ---------------------------------------------------------------------
\* the watchdog's reverts in flight

\* the ticks whose changeThreadTitle of line 316 for conversation t has not settled
Reverting(t) == {k \in TickSlots : ticks[k].pc = "revert" /\ ticks[k].keys[ticks[k].i] = t}

\* C20: for every conversation at most one revert call of the watchdog is in
\* flight at any time, however the poll ticks overlap.
RevertMutualExclusion == \A t \in Threads : Cardinality(Reverting(t)) <= 1
\* ---------------------------------------------------------------------
\* the grace window of the title watchdog

\* the title of t was last observed, by a poll tick or by a log:thread-name
\* event, to be the policy's groupName, and no revert is in flight
ObservedMatching(t) ==
    /\ HasKey(lockKeys, t)
    /\ IsOn(groupLocks[t], "gclock")
    /\ firstSeen[t] = NoTime
    /\ ~groupNameRevertInProgress[t]

\* C21: the detection timestamp is cleared whenever the title is observed to
\* match groupName again, by a poll tick or by a rename notification, so a
\* revert is issued only for a title observed divergent for at least
\* GROUP_NAME_REVERT_DELAY since it last matched.
GraceWindowRestarts ==
    /\ [](\A t \in Threads : ObservedMatching(t) => groupNameChangeDetected[t] = NoTime)
    /\ [][\A t \in Threads :
            (IsOn(groupLocks[t], "gclock") /\ RevertIssued(t) /\ firstSeen[t] # Unsettled)
                => (firstSeen[t] # NoTime /\ now - firstSeen[t] >= GROUP_NAME_REVERT_DELAY)]_vars
\* ---------------------------------------------------------------------
\* a failed metadata fetch in a poll tick

\* C22: when the fetch of a poll tick for a conversation returns null, the
\* tick leaves that conversation's detection timestamp and its
\* revert-in-progress flag as they were and issues no title-set call.
ReadFailureSkips ==
    [][\A k \in TickSlots :
          FetchDone(k, FALSE) =>
              LET t == ticks[k].keys[ticks[k].i] IN
              /\ groupNameChangeDetected'[t] = groupNameChangeDetected[t]
              /\ groupNameRevertInProgress'[t] = groupNameRevertInProgress[t]
              /\ ticks'[k].pc # "revert"
              /\ cmdCalls' = cmdCalls
              /\ title' = title]_vars
\* ---------------------------------------------------------------------
\* the poll over a store with more policies than MAX_PER_TICK

\* a stored policy with the title locked to "X"
TitlePolicy == With(With(EmptyObj, "groupName", "X"), "gclock", TRUE)

\* groupData.json holds a title lock for every conversation when the session
\* starts, and some of the titles have been changed to "Y" meanwhile; nobody
\* renames and no command arrives afterwards
InitWatch ==
    /\ InitQ /\ InitN /\ InitX
    /\ lockKeys = [i \in 1..NumThreads |-> i]
    /\ dataFile = Stringify([t \in Threads |-> TitlePolicy], lockKeys)
    /\ groupLocks = LoadLocks(dataFile)
    /\ now = 0
    /\ nextTick = GROUP_NAME_CHECK_INTERVAL
    /\ ticks = [k \in TickSlots |-> TickOff]
    /\ groupNameChangeDetected = [t \in Threads |-> NoTime]
    /\ groupNameRevertInProgress = [t \in Threads |-> FALSE]
    /\ title \in [Threads -> Names]
    /\ firstSeen = [t \in Threads |-> NoTime]
    /\ cmdCalls = {}

\* metadata fetches and title-set calls succeed
NextWatch ==
    \/ \E dt \in Elapse : Advance(dt)
    \/ \E k \in TickSlots : TickStart(k)
    \/ \E k \in TickSlots : FetchDone(k, TRUE)
    \/ \E k \in TickSlots : RevertDone(k, TRUE)

SpecWatch == InitWatch /\ [][NextWatch]_vars

\* a poll tick has started and every poll tick that started has run to its end
TickOver ==
    /\ nextTick > GROUP_NAME_CHECK_INTERVAL
    /\ \A k \in TickSlots : ticks[k].pc = "off"

\* C23: every conversation whose policy has gclock, whatever its position
\* among the policies, has its title fetched by the poll, so that once a tick
\* is over a title that differs from groupName has its detection stamped (and
\* a later tick reverts it).
EveryLockWatched ==
    TickOver =>
        \A t \in Threads :
            (HasKey(lockKeys, t) /\ IsOn(groupLocks[t], "gclock")
                /\ title[t] # Text(groupLocks[t], "groupName"))
              => groupNameChangeDetected[t] # NoTime
\* ---------------------------------------------------------------------
\* the watchdog after /unlockgname

\* C24: once /unlockgname has taken gclock off a conversation's policy, the
\* watchdog issues no title-set call for it until a /gclock command puts it
\* back, also when a poll tick was awaiting its fetch when the command ran.
NoRevertAfterUnlock ==
    [][\A t \in Threads :
          RevertIssued(t) => (HasKey(lockKeys, t) /\ IsOn(groupLocks[t], "gclock"))]_vars
\* ---------------------------------------------------------------------
\* timers and listeners across reconnects

\* C25: after any sequence of logins and reconnects at most one poll timer,
\* one heartbeat timer, one sweep timer, one backup timer and one event
\* subscription are active (so one nickname event is handled once).
OneSetOfTimers == \A x \in Kinds : timers[x] <= 1
====
